---------------------------- MODULE Spec2Model ----------------------------
(***************************************************************************)
(* A model of the spidey HTTP server: request parsing (request.c),         *)
(* dispatch, handlers and error responder (handler.c), the two accept      *)
(* loops (single.c, forking.c) and the command line (spidey.c).            *)
(*                                                                         *)
(* C strings are sequences of one-character strings; the terminating NUL   *)
(* is implicit (a string ends where its sequence ends).  Memory allocation *)
(* (calloc, strdup) is taken to succeed.                                   *)
(***************************************************************************)
EXTENDS Integers, Sequences, FiniteSets, TLC

VARIABLES
    pc,      \* function specifications: "start" before the call, "done" after
    input,   \* function specifications: the input (the bytes on the wire as
             \* fgets lines, a directory, the command line)
    r,       \* function specifications: the Request (SpecOptions: the locals
             \* and globals of parse_options) being filled in
    ret,     \* function specifications: what the function returned
    mode,    \* server: SINGLE or FORKING, as main chose
    ppc,     \* server: where the accept loop of the original process stands
    cur,     \* server: client_request of the accept loop
    fds,     \* server: the descriptor table of the original process
    env,     \* server: the environment of the original process
    conn,    \* server: per client connection, what was done for it
    child,   \* server: per client connection, the process forked for it
    lastAccept, \* server: how the latest accept_request call ended
    faults   \* server: the number of system calls that have failed

parseVars == <<pc, input, r, ret>>

serverVars == <<mode, ppc, cur, fds, env, conn, child, lastAccept, faults>>

vars == <<pc, input, r, ret, mode, ppc, cur, fds, env, conn, child, lastAccept, faults>>

-----------------------------------------------------------------------------
(* Bounds of the model.                                                      *)

\* longest request line (without its "\n") drawn in SpecMethod
MaxReqLen == 7
\* longest single header line (without its "\n") drawn in SpecHeaders
MaxLineLen == 4
\* most header lines in one header block drawn in SpecHeaders
MaxHeaders == 4
\* the number of clients that connect in Spec
MaxConns == 2
\* the number of system calls that fail in one run of Spec
MaxFaults == 2

-----------------------------------------------------------------------------
(* Strings and the libc / utils helpers the parser uses.                     *)

\* the null pointer, distinct from every string (also from the empty string)
NULL == <<"NULL">>

\* WHITESPACE of spidey.h, the strtok delimiter set
WHITESPACE == {" ", "\t", "\n"}

\* isspace(3) in the C locale, restricted to the characters of the model
isspace(c) == c \in {" ", "\t", "\n", "\r"}

\* streq of spidey.h: strcmp(a, b) == 0
streq(a, b) == a = b

\* the tail of s from 1-based position i (the C pointer s + i - 1)
StrFrom(s, i) == SubSeq(s, i, Len(s))

\* strchr(s, c): 1-based position of the first c in s, 0 when there is none
strchr(s, c) ==
    IF \E i \in 1..Len(s) : s[i] = c
    THEN CHOOSE i \in 1..Len(s) : s[i] = c /\ \A j \in 1..(i - 1) : s[j] # c
    ELSE 0

\* skip_nonwhitespace of utils.c: from position i, the first position holding
\* whitespace, or Len(s) + 1 (the NUL) when there is none
skip_nonwhitespace(s, i) ==
    IF \E k \in i..Len(s) : isspace(s[k])
    THEN CHOOSE k \in i..Len(s) : isspace(s[k]) /\ \A j \in i..(k - 1) : ~isspace(s[j])
    ELSE Len(s) + 1

\* skip_whitespace of utils.c: from position i, the first position holding
\* a non-whitespace character, or Len(s) + 1 (the NUL) when there is none
skip_whitespace(s, i) ==
    IF \E k \in i..Len(s) : ~isspace(s[k])
    THEN CHOOSE k \in i..Len(s) : ~isspace(s[k]) /\ \A j \in i..(k - 1) : isspace(s[j])
    ELSE Len(s) + 1

\* strtok(3) scanning s from position i with delimiters WHITESPACE: the token
\* found ([start, stop], stop the position of the delimiter that ends it, which
\* strtok overwrites with NUL) or start = 0 when only delimiters remain
strtok(s, i) ==
    LET start == IF \E k \in i..Len(s) : s[k] \notin WHITESPACE
                 THEN CHOOSE k \in i..Len(s) :
                          s[k] \notin WHITESPACE /\ \A j \in i..(k - 1) : s[j] \in WHITESPACE
                 ELSE 0
        stop  == IF \E k \in start..Len(s) : s[k] \in WHITESPACE
                 THEN CHOOSE k \in start..Len(s) :
                          s[k] \in WHITESPACE /\ \A j \in start..(k - 1) : s[j] \notin WHITESPACE
                 ELSE Len(s) + 1
    IN  IF start = 0 THEN [start |-> 0, stop |-> 0] ELSE [start |-> start, stop |-> stop]

\* all strings over alphabet A of length at most n
Strings(A, n) == UNION {[1..k -> A] : k \in 0..n}

-----------------------------------------------------------------------------
(* The Request structure.                                                    *)

\* accept_request: the Request as calloc and the assignments leave it.  file
\* is the unread input of the stream, as the lines fgets will return; nodes is
\* the heap of Header structures (headers and next are indexes into it, 0 the
\* null pointer).
NewRequest(lines) ==
    [file |-> lines, method |-> NULL, uri |-> NULL, query |-> NULL,
     path |-> NULL, host |-> <<>>, port |-> <<>>, headers |-> 0, nodes |-> <<>>]

RECURSIVE Walk(_, _)
\* the header list as a traversal sees it (for header = r->headers; header;
\* header = header->next), as a sequence of [name, value]
Walk(nodes, i) ==
    IF i = 0 THEN <<>>
    ELSE <<[name |-> nodes[i].name, value |-> nodes[i].value]>> \o Walk(nodes, nodes[i].next)

HeaderList(req) == Walk(req.nodes, req.headers)

-----------------------------------------------------------------------------
(* request.c: parse_request_method.                                          *)

\* a mutation of SplitQuery: the query pointer is not advanced past the '?'
SplitQuery_keepmark(uri) ==
    LET temp == strchr(uri, "?")
    IN  IF temp # 0
        THEN LET query == StrFrom(uri, temp)
             IN  [uri   |-> SubSeq(uri, 1, Len(uri) - Len(query) - 1),
                  query |-> query]
        ELSE [uri |-> uri, query |-> NULL]

\* lines 182-186: temp = strchr(uri, '?'); when found, query = ++temp and a
\* NUL is written at uri + strlen(uri) - strlen(temp) - 1; else query = NULL
SplitQuery(uri) ==
    LET temp == strchr(uri, "?")
    IN  IF temp # 0
        THEN LET query == StrFrom(uri, temp + 1)
             IN  [uri   |-> SubSeq(uri, 1, Len(uri) - Len(query) - 1),
                  query |-> query]
        ELSE [uri |-> uri, query |-> NULL]

\* parse_request_method(r): [ret, r].  fgets takes the next line of the
\* stream (NULL at end of input); strtok cuts the first two WHITESPACE
\* separated tokens; the query is split off the second; method, uri and
\* (only when there is one) query are stored.
parse_request_method(req) ==
    IF req.file = <<>> THEN [ret |-> -1, r |-> req]
    ELSE
      LET buffer == Head(req.file)
          rd     == [req EXCEPT !.file = Tail(req.file)]
          m      == strtok(buffer, 1)
          u      == strtok(buffer, m.stop + 1)
      IN  IF m.start = 0 THEN [ret |-> -1, r |-> rd]
          ELSE IF u.start = 0 THEN [ret |-> -1, r |-> rd]
          ELSE LET method == SubSeq(buffer, m.start, m.stop - 1)
                   sq     == SplitQuery(SubSeq(buffer, u.start, u.stop - 1))
               IN  [ret |-> 0,
                    r   |-> [rd EXCEPT !.method = method,
                                       !.uri    = sq.uri,
                                       !.query  = IF sq.query # NULL THEN sq.query
                                                  ELSE rd.query]]

-----------------------------------------------------------------------------
(* request.c: parse_request_headers.                                         *)

RECURSIVE TrimBack(_, _, _)
\* lines 254-256: while (value < back && isspace(*back)) back--;
TrimBack(buffer, value, back) ==
    IF value < back /\ isspace(buffer[back])
    THEN TrimBack(buffer, value, back - 1)
    ELSE back

\* lines 248-258 and 267-271: the name and value the code stores for one
\* header line.  split is moved from the ':' to the next whitespace, value
\* starts at the next non-whitespace after it and is cut after its last
\* non-whitespace; the name is the buffer cut at
\* strlen(name) - strlen(value) - 2, where strlen(name) already stops at the
\* NUL written behind the value.  (That offset is never negative for a line
\* that ends in "\n".)
SplitHeader(buffer) ==
    LET colon == strchr(buffer, ":")
    IN  IF colon = 0 THEN [ok |-> FALSE, name |-> NULL, value |-> NULL]
        ELSE
          LET split  == skip_nonwhitespace(buffer, colon)
              value  == skip_whitespace(buffer, split)
              back   == TrimBack(buffer, value, Len(buffer))
              cut    == SubSeq(buffer, 1, back)
              valstr == StrFrom(cut, value)
              namelen == Len(cut) - Len(valstr) - 2
          IN  [ok |-> TRUE, name |-> SubSeq(cut, 1, namelen), value |-> valstr]

\* lines 259-279: a new Header node is linked in.  The first node becomes
\* r->headers, the second r->headers->next and curr; every later node is
\* stored in curr->next, and curr is not advanced.
AppendHeader(req, curr, name, value) ==
    LET k     == Len(req.nodes) + 1
        nodes == Append(req.nodes, [name |-> name, value |-> value, next |-> 0])
    IN  IF req.headers = 0
        THEN [r |-> [req EXCEPT !.nodes = nodes, !.headers = k], curr |-> curr]
        ELSE IF nodes[req.headers].next = 0
        THEN [r |-> [req EXCEPT !.nodes = [nodes EXCEPT ![req.headers].next = k]],
              curr |-> k]
        ELSE [r |-> [req EXCEPT !.nodes = [nodes EXCEPT ![curr].next = k]],
              curr |-> curr]

RECURSIVE HeaderLoop(_, _)
\* lines 241-280: one iteration per line fgets returns; the loop ends at end
\* of input or at a blank line ("\n" or "\r\n") and fails at a line
\* without ':'.
HeaderLoop(req, curr) ==
    IF req.file = <<>> THEN [ret |-> 0, r |-> req]
    ELSE
      LET buffer == Head(req.file)
          rd     == [req EXCEPT !.file = Tail(req.file)]
          h      == SplitHeader(buffer)
      IN  IF streq(buffer, <<"\n">>) \/ streq(buffer, <<"\r", "\n">>)
          THEN [ret |-> 0, r |-> rd]
          ELSE IF ~h.ok THEN [ret |-> -1, r |-> rd]
          ELSE LET a == AppendHeader(rd, curr, h.name, h.value)
               IN  HeaderLoop(a.r, a.curr)

\* parse_request_headers(r): [ret, r], curr starting as NULL
parse_request_headers(req) == HeaderLoop(req, 0)

\* a mutation of AfterHeaders: the result of parse_request_headers is not
\* tested
AfterHeaders_unchecked(h) == [ret |-> 0, r |-> h.r]

\* lines 135-140: -2 when parse_request_headers failed, else 0
AfterHeaders(h) ==
    IF h.ret # 0 THEN [ret |-> -2, r |-> h.r] ELSE [ret |-> 0, r |-> h.r]

\* lines 128-135: -1 when parse_request_method failed, else on to the headers
AfterMethod(m) ==
    IF m.ret # 0 THEN [ret |-> -1, r |-> m.r]
    ELSE AfterHeaders(parse_request_headers(m.r))

\* parse_request(r): [ret, r]
parse_request(req) == AfterMethod(parse_request_method(req))

-----------------------------------------------------------------------------
(* spidey.c, spidey.h: configuration and status codes.                       *)

\* HTTPStatus of spidey.h; OK is zero (handle_request tests result != 0)
HTTP_STATUS_OK == 0
HTTP_STATUS_BAD_REQUEST == 1
HTTP_STATUS_NOT_FOUND == 2
HTTP_STATUS_INTERNAL_SERVER_ERROR == 3

\* char *Port = "9898"
Port == <<"9", "8", "9", "8">>

\* RootPath after main's realpath(RootPath, buffer), abbreviated
RootPath == <<"/", "w">>

-----------------------------------------------------------------------------
(* The file system under the document root, and the process environment.     *)

\* the entries under the document root, by URI: a directory (the root itself
\* and one below it), a regular file, an executable regular file and a FIFO
FileKind ==
    [u \in { <<"/">>, <<"/", "d">>, <<"/", "f">>, <<"/", "x">>, <<"/", "p">> } |->
        CASE u = <<"/">>      -> "dir"
          [] u = <<"/", "d">> -> "dir"
          [] u = <<"/", "f">> -> "reg"
          [] u = <<"/", "x">> -> "exec"
          [] u = <<"/", "p">> -> "other"]

\* determine_request_path of utils.c: the real path of RootPath + uri, NULL
\* when there is no such entry
determine_request_path(uri) ==
    IF uri \in DOMAIN FileKind
    THEN IF uri = <<"/">> THEN RootPath ELSE RootPath \o uri
    ELSE NULL

\* the kind of the entry a resolved path names
KindOfPath(path) ==
    IF path = RootPath THEN "dir" ELSE FileKind[StrFrom(path, Len(RootPath) + 1)]

\* the header names handle_cgi_request exports
Host == <<"H", "o", "s", "t">>
Accept == <<"A", "c", "c", "e", "p", "t">>
AcceptLanguage == Accept \o <<"-", "L", "a", "n", "g", "u", "a", "g", "e">>
AcceptEncoding == Accept \o <<"-", "E", "n", "c", "o", "d", "i", "n", "g">>
Connection == <<"C", "o", "n", "n", "e", "c", "t", "i", "o", "n">>
UserAgent == <<"U", "s", "e", "r", "-", "A", "g", "e", "n", "t">>

EnvNames ==
    {"DOCUMENT_ROOT", "QUERY_STRING", "REMOTE_ADDR", "REMOTE_PORT", "REQUEST_METHOD",
     "REQUEST_URI", "SCRIPT_FILENAME", "SERVER_PORT", "HTTP_HOST", "HTTP_ACCEPT",
     "HTTP_ACCEPT_LANGUAGE", "HTTP_ACCEPT_ENCODING", "HTTP_CONNECTION", "HTTP_USER_AGENT"}

\* an environment maps each name to [val, by]: its value (NULL when unset)
\* and the connection whose handling set it (0: nobody)
Unset == [val |-> NULL, by |-> 0]

\* the environment the server starts with: none of the CGI variables set
InitEnv == [n \in EnvNames |-> Unset]

\* setenv(name, value, 1) called while handling connection id
setenv(e, name, value, id) == [e EXCEPT ![name] = [val |-> value, by |-> id]]

-----------------------------------------------------------------------------
(* handler.c.  A handler works on a context x: the Request x.r it handles    *)
(* (x.id names its connection), the environment x.env of the process that    *)
(* runs it, and what has happened so far: x.out the status lines and bodies  *)
(* written to the client stream, x.ran the handlers entered, x.errs the      *)
(* statuses given to handle_error, x.launched the environment the CGI        *)
(* subprocess was started with (empty until popen succeeds).  An entry of    *)
(* x.out is [line, body]: line is the status of the status line the server   *)
(* wrote, -1 when its own code wrote none (a CGI script writes its own).     *)
(* o holds the outcomes of the system calls.                                 *)

AllOracles ==
    [lstat : BOOLEAN, garbage : {"dir", "reg", "other"}, scandir : BOOLEAN,
     fopen : BOOLEAN, popen : BOOLEAN, hflush : BOOLEAN, eflush : BOOLEAN]

\* the outcomes that differ in effect: one request meets at most one of a
\* failed lstat, scandir, fopen, popen and handler flush (each handler makes
\* one of these calls and flushes only after it succeeded), and st_mode is
\* only arbitrary when lstat failed; the flush of handle_error is free
Oracles ==
    {o \in AllOracles :
        /\ Cardinality({k \in {"lstat", "scandir", "fopen", "popen", "hflush"} : ~o[k]}) <= 1
        /\ o.lstat => o.garbage = "dir"}

NewContext(id, req, e) ==
    [id |-> id, r |-> req, env |-> e, out |-> <<>>, ran |-> <<>>, errs |-> <<>>,
     launched |-> <<>>, eflushFailed |-> FALSE]

\* handle_error(r, status): status line, Content-Type, blank line and heading
\* are written; the status comes back unless the flush fails
handle_error(x, status, o) ==
    [status |-> IF o.eflush THEN status ELSE HTTP_STATUS_INTERNAL_SERVER_ERROR,
     x      |-> [x EXCEPT !.out  = Append(@, [line |-> status, body |-> "error"]),
                          !.errs = Append(@, status),
                          !.eflushFailed = ~o.eflush]]

\* a mutation of handle_browse_request: the scandir failure is reported
\* through handle_error by the handler itself, as its comment words it
handle_browse_request_callserror(x, o) ==
    LET x1 == [x EXCEPT !.ran = Append(@, "browse")]
    IN  IF ~o.scandir
        THEN handle_error(x1, HTTP_STATUS_NOT_FOUND, o)
        ELSE [status |-> IF o.hflush THEN HTTP_STATUS_OK ELSE HTTP_STATUS_NOT_FOUND,
              x      |-> [x1 EXCEPT !.out = Append(@, [line |-> HTTP_STATUS_OK,
                                                       body |-> "listing"])]]

\* handle_browse_request(r): scandir, then "200 OK" and the listing, then
\* the flush
handle_browse_request(x, o) ==
    LET x1 == [x EXCEPT !.ran = Append(@, "browse")]
    IN  IF ~o.scandir
        THEN [status |-> HTTP_STATUS_NOT_FOUND, x |-> x1]
        ELSE [status |-> IF o.hflush THEN HTTP_STATUS_OK ELSE HTTP_STATUS_NOT_FOUND,
              x      |-> [x1 EXCEPT !.out = Append(@, [line |-> HTTP_STATUS_OK,
                                                       body |-> "listing"])]]

\* handle_file_request(r): fopen, then "200 OK" and the file's bytes, then
\* the flush
handle_file_request(x, o) ==
    LET x1 == [x EXCEPT !.ran = Append(@, "file")]
    IN  IF ~o.fopen
        THEN [status |-> HTTP_STATUS_INTERNAL_SERVER_ERROR, x |-> x1]
        ELSE [status |-> IF o.hflush THEN HTTP_STATUS_OK
                         ELSE HTTP_STATUS_INTERNAL_SERVER_ERROR,
              x      |-> [x1 EXCEPT !.out = Append(@, [line |-> HTTP_STATUS_OK,
                                                       body |-> "file"])]]

RECURSIVE ExportHeaders(_, _, _)
\* lines 223-246: one pass over the header list; the six known names are
\* exported, the others skipped
ExportHeaders(e, hs, id) ==
    IF hs = <<>> THEN e
    ELSE LET h == Head(hs)
             e1 == CASE streq(h.name, Host)           -> setenv(e, "HTTP_HOST", h.value, id)
                     [] streq(h.name, Accept)         -> setenv(e, "HTTP_ACCEPT", h.value, id)
                     [] streq(h.name, AcceptLanguage) -> setenv(e, "HTTP_ACCEPT_LANGUAGE", h.value, id)
                     [] streq(h.name, AcceptEncoding) -> setenv(e, "HTTP_ACCEPT_ENCODING", h.value, id)
                     [] streq(h.name, Connection)     -> setenv(e, "HTTP_CONNECTION", h.value, id)
                     [] streq(h.name, UserAgent)      -> setenv(e, "HTTP_USER_AGENT", h.value, id)
                     [] OTHER                         -> e
         IN  ExportHeaders(e1, Tail(hs), id)

\* a mutation of CgiEnvironment: QUERY_STRING is only set when the request
\* has a query
CgiEnvironment_keepquery(x) ==
    LET e1 == setenv(x.env, "DOCUMENT_ROOT", RootPath, x.id)
        e2 == IF x.r.query # NULL THEN setenv(e1, "QUERY_STRING", x.r.query, x.id) ELSE e1
        e3 == setenv(e2, "REMOTE_ADDR", x.r.host, x.id)
        e4 == setenv(e3, "REMOTE_PORT", x.r.port, x.id)
        e5 == setenv(e4, "REQUEST_METHOD", x.r.method, x.id)
        e6 == setenv(e5, "REQUEST_URI", x.r.uri, x.id)
        e7 == setenv(e6, "SCRIPT_FILENAME", x.r.path, x.id)
        e8 == setenv(e7, "SERVER_PORT", Port, x.id)
    IN  ExportHeaders(e8, HeaderList(x.r), x.id)

\* lines 207-246: the environment after the setenv calls of handle_cgi_request.
\* r->host and r->port are arrays, never NULL.
CgiEnvironment(x) ==
    LET e1 == setenv(x.env, "DOCUMENT_ROOT", RootPath, x.id)
        e2 == setenv(e1, "QUERY_STRING", IF x.r.query # NULL THEN x.r.query ELSE <<>>, x.id)
        e3 == setenv(e2, "REMOTE_ADDR", x.r.host, x.id)
        e4 == setenv(e3, "REMOTE_PORT", x.r.port, x.id)
        e5 == setenv(e4, "REQUEST_METHOD", x.r.method, x.id)
        e6 == setenv(e5, "REQUEST_URI", x.r.uri, x.id)
        e7 == setenv(e6, "SCRIPT_FILENAME", x.r.path, x.id)
        e8 == setenv(e7, "SERVER_PORT", Port, x.id)
    IN  ExportHeaders(e8, HeaderList(x.r), x.id)

\* handle_cgi_request(r): the environment is set in the calling process, the
\* script is started with popen (it inherits that environment) and its output
\* copied to the client; the handler writes no status line of its own
handle_cgi_request(x, o) ==
    LET x1 == [x EXCEPT !.ran = Append(@, "cgi"), !.env = CgiEnvironment(x)]
    IN  IF ~o.popen
        THEN [status |-> HTTP_STATUS_INTERNAL_SERVER_ERROR, x |-> x1]
        ELSE [status |-> IF o.hflush THEN HTTP_STATUS_OK
                         ELSE HTTP_STATUS_INTERNAL_SERVER_ERROR,
              x      |-> [x1 EXCEPT !.launched = <<x1.env>>,
                                    !.out = Append(@, [line |-> -1, body |-> "script"])]]

\* lines 57-70: lstat's return value is not tested.  When it succeeds st_mode
\* is the entry's type; when it fails s is uninitialised and st_mode is
\* whatever the stack held (o.garbage).  A regular file is executable when
\* access(path, X_OK) is 0; after a failed lstat the entry is gone and access
\* fails, as do scandir and fopen.
Dispatch(x, o) ==
    LET kind == KindOfPath(x.r.path)
        fmt  == IF o.lstat THEN (IF kind = "exec" THEN "reg" ELSE kind) ELSE o.garbage
        gone == [o EXCEPT !.scandir = FALSE, !.fopen = FALSE]
        oo   == IF o.lstat THEN o ELSE gone
    IN  IF fmt = "dir" THEN handle_browse_request(x, oo)
        ELSE IF fmt = "reg"
        THEN IF o.lstat /\ kind = "exec"
             THEN handle_cgi_request(x, oo)
             ELSE handle_file_request(x, oo)
        ELSE [status |-> HTTP_STATUS_BAD_REQUEST, x |-> x]

\* what handle_request leaves: the status it returns, the context, and for
\* the record parse_request's return value and whether lstat was called and
\* failed
Result(e, parsed, lstatFailed) ==
    [status |-> e.status, x |-> e.x, parsed |-> parsed, lstatFailed |-> lstatFailed]

\* lines 72-76: a status other than 0 from the dispatch goes to handle_error
Finished(d, o) ==
    IF d.status # 0
    THEN Result(handle_error(d.x, d.status, o), 0, ~o.lstat)
    ELSE Result(d, 0, ~o.lstat)

\* lines 49-70: no path is NOT_FOUND by way of handle_error; else dispatch
Resolved(x, o) ==
    IF x.r.path = NULL
    THEN Result(handle_error(x, HTTP_STATUS_NOT_FOUND, o), 0, FALSE)
    ELSE Finished(Dispatch(x, o), o)

\* lines 36-48: a failed parse (-1 or -2) is BAD_REQUEST by way of
\* handle_error; else r->path = determine_request_path(r->uri)
Parsed(x, o, p) ==
    IF p.ret # 0
    THEN Result(handle_error([x EXCEPT !.r = p.r], HTTP_STATUS_BAD_REQUEST, o), p.ret, FALSE)
    ELSE Resolved([x EXCEPT !.r = [p.r EXCEPT !.path = determine_request_path(p.r.uri)]], o)

\* handle_request(r)
handle_request(x, o) == Parsed(x, o, parse_request(x.r))

-----------------------------------------------------------------------------
(* The server: descriptors, connections and processes.                       *)

\* the descriptor socket_listen returned to main: the first one after stdio
SFD == 3

\* the descriptors of a process
Fds == 0..(SFD + MaxConns)

Conns == 1..MaxConns

\* what a descriptor refers to
Closed == [kind |-> "closed", id |-> 0]
Stdio == [kind |-> "stdio", id |-> 0]
Listen == [kind |-> "listen", id |-> 0]
ToConn(c) == [kind |-> "conn", id |-> c]

\* the lowest descriptor not in use, which accept(2) returns
LowestFree(t) == CHOOSE fd \in Fds : t[fd] = Closed /\ \A g \in 0..(fd - 1) : t[g] # Closed

\* client_request == NULL
NoReq == [conn |-> 0, fd |-> 0, file |-> 0]

\* what is recorded of a connection: accepted (accept(2) returned it), hasReq
\* (accept_request returned a Request for it), fork (how the fork for it
\* went), by (the processes that ran handle_request on it), wire (what the
\* client sent), live (the memory of its Request that is allocated in the
\* process of the accept loop) and handle_request's effects as in its context
FreshConn ==
    [accepted |-> FALSE, hasReq |-> FALSE, fork |-> "none", by |-> <<>>, wire |-> <<>>,
     live |-> {},
     r |-> NewRequest(<<>>), out |-> <<>>, ran |-> <<>>, errs |-> <<>>,
     launched |-> <<>>, eflushFailed |-> FALSE, status |-> 0, parsed |-> 0,
     lstatFailed |-> FALSE]

\* no process: before the fork and after the exit
NoChild == [st |-> "none", env |-> InitEnv, fds |-> [fd \in Fds |-> Closed], exit |-> 0]

\* the connection accept(2) returns next, when a client is waiting
Waiting == {c \in Conns : ~conn[c].accepted /\ \A b \in 1..(c - 1) : conn[b].accepted}

\* what clients send: a request line and header lines as fgets returns them
GET(u) == <<"G", " ">> \o u \o <<" ", "H", "\r", "\n">>
HeaderLine(name, v) == name \o <<":", " ">> \o v \o <<"\r", "\n">>
Blank == <<"\r", "\n">>

\* the requests the clients of Spec send: nothing at all, a request for the
\* regular file, and two requests for the executable, one with a query and
\* headers and one without
ServerWires ==
    { <<>>,
      << GET(<<"/", "f">>), HeaderLine(Host, <<"a">>), Blank >>,
      << GET(<<"/", "x", "?", "q">>), HeaderLine(Host, <<"a">>), HeaderLine(Accept, <<"b">>), Blank >>,
      << GET(<<"/", "x">>), Blank >> }

\* the requests SpecHandle draws: no request line, a request line without
\* URI, and every entry of the document root and one missing entry, with
\* and without a query, under each of five header blocks
WireRequests ==
    {<<>>} \cup
    { <<l>> \o b \o <<Blank>> :
        l \in { <<"G", "\n">> } \cup
              { GET(u \o q) : u \in DOMAIN FileKind \cup { <<"/", "n">> },
                              q \in { <<>>, <<"?", "q">> } },
        b \in { <<>>,
                << HeaderLine(Host, <<"a">>) >>,
                << HeaderLine(Host, <<"a">>), HeaderLine(Accept, <<"b">>) >>,
                << HeaderLine(Host, <<"a">>), HeaderLine(Accept, <<"b">>),
                   HeaderLine(Connection, <<"c">>), HeaderLine(UserAgent, <<"d">>) >>,
                << <<"b", "a", "d", "\n">> >> } }

\* the number of system calls that fail under o
Faults(o) ==
    Cardinality({k \in {"lstat", "scandir", "fopen", "popen", "hflush", "eflush"} : ~o[k]})

\* an allocation is <<what, i>>: the Request structure, one of its strings, or
\* Header structure i (in order of allocation) or its name or value
TheRequest == <<"request", 0>>

\* what parse_request and determine_request_path allocated for a Request:
\* the strdup'ed method, uri and query (request.c lines 190-194), the path
\* (handler.c line 48), and per header the calloc'ed node and the strdup'ed
\* value and name (request.c lines 259-271)
Allocated(req) ==
    {<<a, 0>> : a \in {f \in {"method", "uri", "query", "path"} : req[f] # NULL}}
        \cup ({"node", "name", "value"} \X (1..Len(req.nodes)))

\* what free_request frees (request.c lines 100-112): the four strings,
\* r->headers->next and r->headers when there is a list, and the Request
Released(req) ==
    {TheRequest} \cup {<<a, 0>> : a \in {"method", "uri", "query", "path"}}
        \cup (IF req.headers = 0 THEN {}
              ELSE {<<"node", req.headers>>} \cup
                   (IF req.nodes[req.headers].next = 0 THEN {}
                    ELSE {<<"node", req.nodes[req.headers].next>>}))

\* the record of connection cn after process who ran handle_request on wire w
\* with result h; a child works on its own copy of the memory
Handled(cn, who, w, h) ==
    [cn EXCEPT !.by = Append(@, who), !.wire = w, !.r = h.x.r, !.out = @ \o h.x.out,
               !.live = IF who = "parent" THEN @ \cup Allocated(h.x.r) ELSE @,
               !.ran = @ \o h.x.ran, !.errs = @ \o h.x.errs, !.launched = @ \o h.x.launched,
               !.eflushFailed = h.x.eflushFailed, !.status = h.status,
               !.parsed = h.parsed, !.lstatFailed = h.lstatFailed]

-----------------------------------------------------------------------------
(* request.c: accept_request and free_request.                               *)

\* accept(2) fails (line 48): nothing was acquired, NULL is returned
AcceptFails ==
    /\ ppc = "accept"
    /\ faults < MaxFaults
    /\ faults' = faults + 1
    /\ lastAccept' = "accept failed"
    /\ UNCHANGED <<mode, ppc, cur, fds, env, conn, child>>
    /\ UNCHANGED parseVars

\* accept(2) succeeds and getnameinfo fails (lines 56-59): goto fail frees the
\* Request and returns NULL; client_fd is not closed
AcceptLookupFails ==
    /\ ppc = "accept"
    /\ faults < MaxFaults
    /\ fds[SFD] = Listen
    /\ \E c \in Waiting :
          /\ fds' = [fds EXCEPT ![LowestFree(fds)] = ToConn(c)]
          /\ conn' = [conn EXCEPT ![c].accepted = TRUE]
    /\ faults' = faults + 1
    /\ lastAccept' = "getnameinfo failed"
    /\ UNCHANGED <<mode, ppc, cur, env, child>>
    /\ UNCHANGED parseVars

\* accept(2) succeeds and fdopen fails (lines 61-66): client_fd is closed, the
\* Request freed and NULL returned
AcceptFdopenFails ==
    /\ ppc = "accept"
    /\ faults < MaxFaults
    /\ fds[SFD] = Listen
    /\ \E c \in Waiting : conn' = [conn EXCEPT ![c].accepted = TRUE]
    /\ faults' = faults + 1
    /\ lastAccept' = "fdopen failed"
    /\ UNCHANGED <<mode, ppc, cur, fds, env, child>>
    /\ UNCHANGED parseVars

\* accept_request returns a Request: fd is 0 (line 40), file the stream
\* opened on client_fd
AcceptOk ==
    /\ ppc = "accept"
    /\ fds[SFD] = Listen
    /\ \E c \in Waiting :
          /\ fds' = [fds EXCEPT ![LowestFree(fds)] = ToConn(c)]
          /\ conn' = [conn EXCEPT ![c].accepted = TRUE, ![c].hasReq = TRUE,
                                   ![c].live = {TheRequest}]
          /\ cur' = [conn |-> c, fd |-> 0, file |-> LowestFree(fds)]
    /\ ppc' = IF mode = "SINGLE" THEN "handle" ELSE "fork"
    /\ lastAccept' = "ok"
    /\ UNCHANGED <<mode, env, child, faults>>
    /\ UNCHANGED parseVars

\* accept_request(sfd), called at the top of both loops; on NULL the loop
\* continues
accept_request ==
    \/ AcceptFails
    \/ AcceptLookupFails
    \/ AcceptFdopenFails
    \/ AcceptOk

\* free_request(r), its effect on the descriptor table: close(r->fd), then
\* fclose(r->file), which closes the stream's descriptor
free_request(t, req) == [[t EXCEPT ![req.fd] = Closed] EXCEPT ![req.file] = Closed]

-----------------------------------------------------------------------------
(* single.c: single_server.                                                  *)

\* line 26: handle_request(client_request), in the server's own process
SingleHandle ==
    /\ mode = "SINGLE" /\ ppc = "handle"
    /\ \E w \in ServerWires, o \in Oracles :
          LET h == handle_request(NewContext(cur.conn, NewRequest(w), env), o)
          IN  /\ faults + Faults(o) <= MaxFaults
              /\ faults' = faults + Faults(o)
              /\ conn' = [conn EXCEPT ![cur.conn] = Handled(@, "parent", w, h)]
              /\ env' = h.x.env
    /\ ppc' = "free"
    /\ UNCHANGED <<mode, cur, fds, child, lastAccept>>
    /\ UNCHANGED parseVars

\* a mutation of SingleFree: the loop goes on to the next accept without
\* free_request
SingleFree_keeps ==
    /\ mode = "SINGLE" /\ ppc = "free"
    /\ cur' = NoReq
    /\ ppc' = "accept"
    /\ UNCHANGED <<mode, fds, env, conn, child, lastAccept, faults>>
    /\ UNCHANGED parseVars

\* line 29: free_request(client_request)
SingleFree ==
    /\ mode = "SINGLE" /\ ppc = "free"
    /\ fds' = free_request(fds, cur)
    /\ conn' = [conn EXCEPT ![cur.conn].live = @ \ Released(conn[cur.conn].r)]
    /\ cur' = NoReq
    /\ ppc' = "accept"
    /\ UNCHANGED <<mode, env, child, lastAccept, faults>>
    /\ UNCHANGED parseVars

\* the loop of single_server, accept_request apart
single_server ==
    \/ SingleHandle
    \/ SingleFree

-----------------------------------------------------------------------------
(* forking.c: forking_server.                                                *)

\* lines 34-38: fork fails; the listening socket is closed and the loop
\* continues, client_request is neither handled nor freed
ForkFails ==
    /\ mode = "FORKING" /\ ppc = "fork"
    /\ faults < MaxFaults
    /\ faults' = faults + 1
    /\ fds' = [fds EXCEPT ![SFD] = Closed]
    /\ conn' = [conn EXCEPT ![cur.conn].fork = "failed"]
    /\ cur' = NoReq
    /\ ppc' = "accept"
    /\ UNCHANGED <<mode, env, child, lastAccept>>
    /\ UNCHANGED parseVars

\* line 33: fork succeeds; the child starts with copies of the parent's
\* memory, environment and descriptors
ForkOk ==
    /\ mode = "FORKING" /\ ppc = "fork"
    /\ child' = [child EXCEPT ![cur.conn] =
                    [st |-> "running", env |-> env, fds |-> fds, exit |-> 0]]
    /\ conn' = [conn EXCEPT ![cur.conn].fork = "ok"]
    /\ ppc' = "free"
    /\ UNCHANGED <<mode, cur, fds, env, lastAccept, faults>>
    /\ UNCHANGED parseVars

\* lines 39-45, the child: handle_request on its copy of the Request, in its
\* own environment, then close(sfd) and exit(status != 0), which closes every
\* descriptor of the child
ForkingChild ==
    \E c \in Conns :
       /\ child[c].st = "running"
       /\ \E w \in ServerWires, o \in Oracles :
             LET h == handle_request(NewContext(c, NewRequest(w), child[c].env), o)
             IN  /\ faults + Faults(o) <= MaxFaults
                 /\ faults' = faults + Faults(o)
                 /\ conn' = [conn EXCEPT ![c] = Handled(@, "child", w, h)]
                 /\ child' = [child EXCEPT ![c] =
                                 [NoChild EXCEPT !.st = "exited",
                                                 !.exit = IF h.status # 0 THEN 1 ELSE 0]]
       /\ UNCHANGED <<mode, ppc, cur, fds, env, lastAccept>>
       /\ UNCHANGED parseVars

\* a mutation of ForkingParent: the parent runs handle_request on its copy of
\* the Request as well, as single_server does, before it frees it
ForkingParent_handles ==
    /\ mode = "FORKING" /\ ppc = "free"
    /\ \E w \in ServerWires, o \in Oracles :
          LET h == handle_request(NewContext(cur.conn, NewRequest(w), env), o)
          IN  /\ faults + Faults(o) <= MaxFaults
              /\ faults' = faults + Faults(o)
              /\ conn' = [conn EXCEPT ![cur.conn] =
                              [Handled(@, "parent", w, h) EXCEPT
                                  !.live = @ \ Released(h.x.r)]]
              /\ env' = h.x.env
    /\ fds' = free_request(fds, cur)
    /\ cur' = NoReq
    /\ ppc' = "accept"
    /\ UNCHANGED <<mode, child, lastAccept>>
    /\ UNCHANGED parseVars

\* lines 46-48: the parent frees its copy of the Request and loops
ForkingParent ==
    /\ mode = "FORKING" /\ ppc = "free"
    /\ fds' = free_request(fds, cur)
    /\ conn' = [conn EXCEPT ![cur.conn].live = @ \ Released(conn[cur.conn].r)]
    /\ cur' = NoReq
    /\ ppc' = "accept"
    /\ UNCHANGED <<mode, env, child, lastAccept, faults>>
    /\ UNCHANGED parseVars

\* the loop of forking_server and its children, accept_request apart
forking_server ==
    \/ ForkFails
    \/ ForkOk
    \/ ForkingChild
    \/ ForkingParent

-----------------------------------------------------------------------------
(* Spec: the server in either mode, serving up to MaxConns clients, with up  *)
(* to MaxFaults failing system calls.                                        *)

\* the parser's variables, which the server specifications do not use
ParserIdle == pc = "server" /\ input = <<>> /\ r = NewRequest(<<>>) /\ ret = 0

\* the server's variables, as main leaves them when it enters the loop
ServerInit ==
    /\ mode \in {"SINGLE", "FORKING"}
    /\ ppc = "accept"
    /\ cur = NoReq
    /\ fds = [fd \in Fds |-> IF fd < SFD THEN Stdio ELSE IF fd = SFD THEN Listen ELSE Closed]
    /\ env = InitEnv
    /\ conn = [c \in Conns |-> FreshConn]
    /\ child = [c \in Conns |-> NoChild]
    /\ lastAccept = "none"
    /\ faults = 0

Init == ParserIdle /\ ServerInit

Next ==
    \/ accept_request
    \/ single_server
    \/ forking_server

Spec == Init /\ [][Next]_vars

-----------------------------------------------------------------------------
(* SpecHandle: handle_request applied once, in the server's own process, to  *)
(* every request of WireRequests under every outcome of the system calls.    *)

\* the state after the first accept_request of single_server
InitHandle ==
    /\ pc = "start"
    /\ input \in WireRequests
    /\ r = NewRequest(input)
    /\ ret = 0
    /\ mode = "SINGLE"
    /\ ppc = "handle"
    /\ cur = [conn |-> 1, fd |-> 0, file |-> SFD + 1]
    /\ fds = [fd \in Fds |-> IF fd < SFD THEN Stdio ELSE IF fd = SFD THEN Listen
                             ELSE IF fd = SFD + 1 THEN ToConn(1) ELSE Closed]
    /\ env = InitEnv
    /\ conn = [c \in Conns |-> IF c = 1
                               THEN [FreshConn EXCEPT !.accepted = TRUE, !.hasReq = TRUE]
                               ELSE FreshConn]
    /\ child = [c \in Conns |-> NoChild]
    /\ lastAccept = "ok"
    /\ faults = 0

DoHandle ==
    /\ pc = "start"
    /\ \E o \in Oracles :
          LET h == handle_request(NewContext(cur.conn, r, env), o)
          IN  /\ conn' = [conn EXCEPT ![cur.conn] = Handled(@, "parent", input, h)]
              /\ env' = h.x.env
              /\ r' = h.x.r
              /\ ret' = h.status
              /\ faults' = Faults(o)
    /\ pc' = "done"
    /\ ppc' = "free"
    /\ UNCHANGED <<input, mode, cur, fds, child, lastAccept>>

NextHandle == DoHandle

SpecHandle == InitHandle /\ [][NextHandle]_vars

-----------------------------------------------------------------------------
(* SpecMethod: parse_request_method applied to every short request line.     *)

MethodAlphabet == {"G", "?", " "}

RequestLines == {s \o <<"\n">> : s \in Strings(MethodAlphabet, MaxReqLen)}

\* the server's variables, which the parser specifications do not use
ServerIdle == ServerInit /\ mode = "SINGLE"

InitMethod ==
    /\ ServerIdle
    /\ pc = "start"
    /\ input \in {<<>>} \cup {<<l>> : l \in RequestLines}
    /\ r = NewRequest(input)
    /\ ret = 0

DoParseMethod ==
    /\ pc = "start"
    /\ LET res == parse_request_method(r)
       IN  r' = res.r /\ ret' = res.ret
    /\ pc' = "done"
    /\ UNCHANGED input
    /\ UNCHANGED serverVars

NextMethod == DoParseMethod

SpecMethod == InitMethod /\ [][NextMethod]_vars

-----------------------------------------------------------------------------
(* SpecHeaders: parse_request_headers applied to header blocks: every        *)
(* single short line, and every block of up to MaxHeaders well-formed lines, *)
(* ended by "\n", by "\r\n" or by the end of the input.                      *)

HeaderAlphabet == {"N", ":", " ", "v", "\r"}

HeaderLines == {s \o <<"\n">> : s \in Strings(HeaderAlphabet, MaxLineLen)}

\* well-formed lines "<Name>: <Value>", two of them with the same name
MenuLines ==
    { <<"A", ":", " ", "1", "\n">>,
      <<"B", ":", " ", "2", "\r", "\n">>,
      <<"A", ":", " ", "3", "\n">> }

Terminators == { <<>>, << <<"\n">> >>, << <<"\r", "\n">> >> }

HeaderBlocks ==
    {<<l>> : l \in HeaderLines} \cup Strings(MenuLines, MaxHeaders)

InitHeaders ==
    /\ ServerIdle
    /\ pc = "start"
    /\ input \in {b \o t : b \in HeaderBlocks, t \in Terminators}
    /\ r = NewRequest(input)
    /\ ret = 0

DoParseHeaders ==
    /\ pc = "start"
    /\ LET res == parse_request_headers(r)
       IN  r' = res.r /\ ret' = res.ret
    /\ pc' = "done"
    /\ UNCHANGED input
    /\ UNCHANGED serverVars

NextHeaders == DoParseHeaders

SpecHeaders == InitHeaders /\ [][NextHeaders]_vars

-----------------------------------------------------------------------------
(* Properties of the parser.                                                 *)

\* s without its leading and trailing whitespace
Trim(s) ==
    LET ns == {i \in 1..Len(s) : ~isspace(s[i])}
    IN  IF ns = {} THEN <<>>
        ELSE SubSeq(s, CHOOSE i \in ns : \A j \in ns : i <= j,
                       CHOOSE i \in ns : \A j \in ns : j <= i)

\* 1-based position of the first c in s (s contains c)
FirstPos(s, c) == CHOOSE i \in 1..Len(s) : s[i] = c /\ \A j \in 1..(i - 1) : s[j] # c

Contains(s, c) == \E i \in 1..Len(s) : s[i] = c

IsBlank(line) == line = <<"\n">> \/ line = <<"\r", "\n">>

\* the header lines of a wire input: the lines before the first blank line
BlockOf(lines) ==
    IF \E i \in 1..Len(lines) : IsBlank(lines[i])
    THEN SubSeq(lines, 1, (CHOOSE i \in 1..Len(lines) :
                              IsBlank(lines[i]) /\ \A j \in 1..(i - 1) : ~IsBlank(lines[j])) - 1)
    ELSE lines

\* the maximal runs of non-whitespace of a line, as <<first, last>> positions
TokenSpans(s) ==
    {sp \in (1..Len(s)) \X (1..Len(s)) :
        /\ sp[1] <= sp[2]
        /\ \A k \in sp[1]..sp[2] : s[k] \notin WHITESPACE
        /\ (sp[1] = 1 \/ s[sp[1] - 1] \in WHITESPACE)
        /\ (sp[2] = Len(s) \/ s[sp[2] + 1] \in WHITESPACE)}

\* the n-th whitespace-separated token of a line that has at least n
Token(s, n) ==
    LET sp == CHOOSE t \in TokenSpans(s) :
                  Cardinality({u \in TokenSpans(s) : u[1] < t[1]}) = n - 1
    IN  SubSeq(s, sp[1], sp[2])

\* C1: after parse_request_headers succeeds on a well-formed block of N header
\* lines, the header list holds exactly N entries, one per wire line, in
\* arrival order (entry i is what line i parses to); none is dropped,
\* reordered or merged.
C1_AllHeadersKept ==
    (pc = "done" /\ \A i \in 1..Len(BlockOf(input)) : Contains(BlockOf(input)[i], ":"))
        => /\ ret = 0
           /\ Len(HeaderList(r)) = Len(BlockOf(input))
           /\ \A i \in 1..Len(BlockOf(input)) :
                  /\ HeaderList(r)[i].name  = SplitHeader(BlockOf(input)[i]).name
                  /\ HeaderList(r)[i].value = SplitHeader(BlockOf(input)[i]).value

\* C2: for a header line containing ':', the stored name is the text before the
\* first ':' trimmed, and the stored value is the text after that ':' without
\* its leading whitespace and its trailing whitespace and line terminator.
C2_NameValueTrimmed ==
    (pc = "done" /\ ret = 0 /\ Len(HeaderList(r)) = Len(BlockOf(input)))
        => \A i \in 1..Len(BlockOf(input)) :
              LET line  == BlockOf(input)[i]
                  colon == FirstPos(line, ":")
              IN  /\ HeaderList(r)[i].name  = Trim(SubSeq(line, 1, colon - 1))
                  /\ HeaderList(r)[i].value = Trim(StrFrom(line, colon + 1))

\* C3: for a request line with a method and a URI token, uri is the text of
\* the URI token before its first '?' and query everything after that '?'
\* (possibly empty, possibly containing '?'); without a '?' uri is the whole
\* token and query stays unset.  So query is unset exactly when the URI token
\* holds no '?'.
C3_QuerySplit ==
    (pc = "done" /\ input # <<>> /\ Cardinality(TokenSpans(input[1])) >= 2)
        => LET tok == Token(input[1], 2)
           IN  /\ ret = 0
               /\ r.method = Token(input[1], 1)
               /\ (r.query = NULL) <=> ~Contains(tok, "?")
               /\ Contains(tok, "?") =>
                     /\ r.uri   = SubSeq(tok, 1, FirstPos(tok, "?") - 1)
                     /\ r.query = StrFrom(tok, FirstPos(tok, "?") + 1)
               /\ ~Contains(tok, "?") => r.uri = tok

\* a request line was parsed whose query holds a further '?'
C3_Witness ==
    /\ pc = "done" /\ ret = 0
    /\ Cardinality(TokenSpans(input[1])) >= 3
    /\ r.query # NULL /\ Contains(r.query, "?")

-----------------------------------------------------------------------------
(* Properties of handle_request.                                             *)

\* handle_request has run on connection c
Done(c) == conn[c].by # <<>>

\* what the client of c sent cannot be parsed: no request line, a request line
\* with fewer than two tokens, or a header line without ':'
Unparsable(w) ==
    \/ w = <<>>
    \/ Cardinality(TokenSpans(w[1])) < 2
    \/ \E i \in 1..Len(BlockOf(Tail(w))) : ~Contains(BlockOf(Tail(w))[i], ":")

\* the response handle_error writes for a status
ErrorResponse(status) == [line |-> status, body |-> "error"]

\* C4 as stated: when parsing fails in either phase, handle_request returns
\* BadRequest after sending the error response, and neither the path
\* resolution nor a handler runs.
C4_ParseFailureReturnsBadRequest ==
    \A c \in Conns :
        (Done(c) /\ Unparsable(conn[c].wire))
            => /\ conn[c].status = HTTP_STATUS_BAD_REQUEST
               /\ conn[c].out = <<ErrorResponse(HTTP_STATUS_BAD_REQUEST)>>
               /\ conn[c].r.path = NULL
               /\ conn[c].ran = <<>>

\* C4 amended: when parsing fails in either phase, handle_request sends the
\* BadRequest error response and runs neither the path resolution nor a
\* handler; it returns BadRequest, except that it returns InternalServerError
\* when the flush of that error response fails.
C4_ParseFailureAnswered ==
    \A c \in Conns :
        (Done(c) /\ Unparsable(conn[c].wire))
            => /\ conn[c].status = IF conn[c].eflushFailed
                                   THEN HTTP_STATUS_INTERNAL_SERVER_ERROR
                                   ELSE HTTP_STATUS_BAD_REQUEST
               /\ conn[c].out = <<ErrorResponse(HTTP_STATUS_BAD_REQUEST)>>
               /\ conn[c].errs = <<HTTP_STATUS_BAD_REQUEST>>
               /\ conn[c].r.path = NULL
               /\ conn[c].ran = <<>>

\* a request whose header line has no ':' was answered, and the flush of the
\* error response failed
C4_Witness ==
    \E c \in Conns :
        /\ Done(c) /\ conn[c].parsed = -2 /\ conn[c].eflushFailed
        /\ conn[c].status = HTTP_STATUS_INTERNAL_SERVER_ERROR

\* C5: after a successful parse the handler is chosen by the resolved path
\* alone: no path gives NotFound and no handler; a directory runs the listing
\* handler only, an executable regular file the CGI handler only, another
\* regular file the static file handler only; any other entry (one that is
\* gone when it is classified included) gives BadRequest and no handler.
C5_HandlerByPathKind ==
    \A c \in Conns :
        (Done(c) /\ conn[c].parsed = 0)
            => IF conn[c].r.path = NULL
               THEN conn[c].ran = <<>> /\ conn[c].errs = <<HTTP_STATUS_NOT_FOUND>>
               ELSE LET kind == IF conn[c].lstatFailed THEN "other"
                                ELSE KindOfPath(conn[c].r.path)
                    IN  /\ kind = "dir"  => conn[c].ran = <<"browse">>
                        /\ kind = "exec" => conn[c].ran = <<"cgi">>
                        /\ kind = "reg"  => conn[c].ran = <<"file">>
                        /\ kind = "other" => /\ conn[c].ran = <<>>
                                             /\ conn[c].errs = <<HTTP_STATUS_BAD_REQUEST>>

\* C7: in every execution of handle_request, handle_error is called exactly
\* once when a step or the handler reports a status other than OK and not at
\* all when the handler returns OK; one error response at most is written.
C7_ErrorResponderOnce ==
    \A c \in Conns :
        Done(c)
            => /\ Len(conn[c].errs) = IF conn[c].status = HTTP_STATUS_OK THEN 0 ELSE 1
               /\ Cardinality({i \in 1..Len(conn[c].out) : conn[c].out[i].body = "error"})
                      = Len(conn[c].errs)
               /\ conn[c].status = HTTP_STATUS_OK => Len(conn[c].ran) = 1
               /\ (conn[c].errs # <<>> /\ ~conn[c].eflushFailed)
                      => conn[c].status = conn[c].errs[1]

\* a handler ran and failed, and its status went through handle_error
C7_Witness ==
    \E c \in Conns :
        /\ Done(c) /\ conn[c].ran = <<"browse">>
        /\ conn[c].status = HTTP_STATUS_NOT_FOUND
        /\ conn[c].errs = <<HTTP_STATUS_NOT_FOUND>>

-----------------------------------------------------------------------------
(* Properties of the accept loops.                                           *)

\* some process still holds a descriptor of connection c
ConnOpen(c) ==
    \/ \E fd \in Fds : fds[fd] = ToConn(c)
    \/ \E k \in Conns : child[k].st = "running" /\ \E fd \in Fds : child[k].fds[fd] = ToConn(c)

\* no process is working on connection c any more: the accept loop has gone
\* on and no child forked for it is alive
OverFor(c) == cur.conn # c /\ child[c].st # "running"

\* C6: in both modes, every accepted connection, whatever fails (the spawn
\* included), gets a response and is closed: once no process works on it any
\* more, something was written to its stream and no descriptor of it is open.
C6_EveryConnectionAnswered ==
    \A c \in Conns :
        (conn[c].hasReq /\ OverFor(c)) => (conn[c].out # <<>> /\ ~ConnOpen(c))

\* C8: in FORKING mode the loop keeps serving after a fork failure or an
\* accept failure: the listening socket is still open in the accept loop.
C8_LoopKeepsServing ==
    (mode = "FORKING" /\ (lastAccept = "accept failed" \/ \E c \in Conns : conn[c].fork = "failed"))
        => fds[SFD] = Listen

\* C9: in FORKING mode every Request accept_request returned is handled by
\* exactly one process, the child forked for it, which runs handle_request
\* once and exits with status 0 exactly when the HTTP status is OK; the
\* parent runs no handler.
C9_HandledByOneChild ==
    mode = "FORKING"
        => \A c \in Conns :
              /\ conn[c].by \in {<<>>, <<"child">>}
              /\ (conn[c].hasReq /\ OverFor(c))
                    => /\ conn[c].by = <<"child">>
                       /\ child[c].st = "exited"
                       /\ (child[c].exit = 0) <=> (conn[c].status = HTTP_STATUS_OK)

\* C10: in FORKING mode the environment a CGI subprocess is started with
\* holds no value set for another request, a child starts with an
\* environment no request has written to, and the environment of the parent
\* is never modified.
C10_ChildEnvironmentsIsolated ==
    mode = "FORKING"
        => /\ env = InitEnv
           /\ \A c \in Conns :
                 /\ child[c].st = "running" => \A n \in EnvNames : child[c].env[n].by = 0
                 /\ \A i \in 1..Len(conn[c].launched) :
                       \A n \in EnvNames : conn[c].launched[i][n].by \in {0, c}

\* a CGI subprocess was started for one connection, with its query in
\* QUERY_STRING, while the child of another connection was alive
C10_Witness ==
    /\ mode = "FORKING"
    /\ \E c \in Conns, k \in Conns :
          /\ c # k /\ child[k].st = "running"
          /\ conn[c].launched # <<>>
          /\ conn[c].launched[1]["QUERY_STRING"].val = <<"q">>

-----------------------------------------------------------------------------
(* Properties of the CGI environment.                                        *)

\* the header names of the allow list with the variable each is exported as
Exported ==
    { <<Host, "HTTP_HOST">>, <<Accept, "HTTP_ACCEPT">>,
      <<AcceptLanguage, "HTTP_ACCEPT_LANGUAGE">>, <<AcceptEncoding, "HTTP_ACCEPT_ENCODING">>,
      <<Connection, "HTTP_CONNECTION">>, <<UserAgent, "HTTP_USER_AGENT">> }

\* name and value of a header line as sent: the text before the first ':' and
\* the text after it, trimmed
WireName(line) == Trim(SubSeq(line, 1, FirstPos(line, ":") - 1))
WireValue(line) == Trim(StrFrom(line, FirstPos(line, ":") + 1))

\* the header lines of a wire request
WireHeaders(w) == IF w = <<>> THEN <<>> ELSE BlockOf(Tail(w))

\* the header list of the Request holds a header of that name
HasHeader(req, name) ==
    \E i \in 1..Len(HeaderList(req)) : HeaderList(req)[i].name = name

\* C11: for every CGI request and every allow-listed header name on the
\* wire, whatever the number and order of the headers sent, the subprocess
\* is started with the corresponding HTTP_ variable set to the header's value.
C11_KnownHeadersExported ==
    \A c \in Conns :
        (Done(c) /\ conn[c].launched # <<>>)
            => \A i \in 1..Len(WireHeaders(conn[c].wire)) : \A p \in Exported :
                  LET line == WireHeaders(conn[c].wire)[i]
                  IN  (Contains(line, ":") /\ WireName(line) = p[1])
                          => conn[c].launched[1][p[2]].val = WireValue(line)

\* C12: for every CGI request whose header list lacks one of the optional
\* allow-listed headers, the environment of the subprocess holds no HTTP_
\* variable for it; a value exported for an earlier request is not visible.
C12_AbsentHeadersNotExported ==
    \A c \in Conns :
        (Done(c) /\ conn[c].launched # <<>>)
            => \A p \in Exported :
                  (p[1] # Host /\ ~HasHeader(conn[c].r, p[1]))
                      => conn[c].launched[1][p[2]].val = NULL

\* C13: for every CGI request whose header list holds no Host header, the
\* subprocess is started with HTTP_HOST set to the empty string.
C13_HostExportedEmpty ==
    \A c \in Conns :
        (Done(c) /\ conn[c].launched # <<>> /\ ~HasHeader(conn[c].r, Host))
            => conn[c].launched[1]["HTTP_HOST"].val = <<>>

\* C14: for every CGI request the subprocess is started with QUERY_STRING
\* equal to the query of the request when its request line held a '?' and to
\* the empty string when it did not, whatever the earlier requests were.
C14_QueryStringPerRequest ==
    \A c \in Conns :
        (Done(c) /\ conn[c].launched # <<>>)
            => LET tok == Token(conn[c].wire[1], 2)
               IN  conn[c].launched[1]["QUERY_STRING"] =
                       [val |-> IF Contains(tok, "?")
                                THEN StrFrom(tok, FirstPos(tok, "?") + 1)
                                ELSE <<>>,
                        by  |-> c]

\* in one process, a CGI request without query was served after a CGI
\* request with a query, each with its own QUERY_STRING
C14_Witness ==
    /\ mode = "SINGLE"
    /\ \E c \in Conns, k \in Conns :
          /\ c < k
          /\ conn[c].launched # <<>> /\ conn[c].launched[1]["QUERY_STRING"].val = <<"q">>
          /\ conn[k].launched # <<>> /\ conn[k].launched[1]["QUERY_STRING"].val = <<>>
          /\ conn[k].by = <<"parent">>

-----------------------------------------------------------------------------
(* Properties of the life of a Request.                                      *)

\* free_request was called on the Request of connection c
Freed(c) == conn[c].hasReq /\ cur.conn # c /\ conn[c].fork # "failed"

\* C15: free_request releases everything a Request owns: after it the stream
\* is closed and nothing of the Request (structure, method, URI, query, path,
\* header nodes with their names and values) is still allocated.
C15_FreeReleasesEverything ==
    \A c \in Conns :
        Freed(c) => /\ conn[c].live = {}
                    /\ \A fd \in Fds : fds[fd] # ToConn(c)

\* C16: when the peer-address lookup fails after a successful accept,
\* accept_request still returns a Request, with empty host and port and an
\* open stream, which goes on to be handled; it does not return absent.
C16_LookupFailureStillServes ==
    lastAccept = "getnameinfo failed"
        => /\ cur # NoReq
           /\ conn[cur.conn].hasReq
           /\ fds[cur.file] = ToConn(cur.conn)

\* C17: whenever accept_request returns absent, everything the call acquired
\* is released: the Request structure is freed and no descriptor of a client
\* connection it accepted is left open.
C17_AbsentReleasesEverything ==
    \A c \in Conns :
        (conn[c].accepted /\ ~conn[c].hasReq)
            => /\ conn[c].live = {}
               /\ \A fd \in Fds : fds[fd] # ToConn(c)

\* C18: in SINGLE mode at most one Request exists at any time, the one the
\* loop is working on; each Request accept_request returned is handled
\* exactly once and freed before the next accept, and after an absent result
\* nothing is handled.
C18_OneRequestAtATime ==
    mode = "SINGLE"
        => /\ Cardinality({c \in Conns : TheRequest \in conn[c].live}) <= 1
           /\ ppc = "accept" <=> cur = NoReq
           /\ \A c \in Conns :
                 /\ (TheRequest \in conn[c].live) <=> (cur.conn = c)
                 /\ conn[c].by = IF conn[c].hasReq /\ (cur.conn # c \/ ppc = "free")
                                 THEN <<"parent">> ELSE <<>>
                 /\ (cur.conn = c /\ ppc = "handle") => fds[cur.file] = ToConn(c)

\* a Request was handled once and freed, and the next accept_request call
\* returned absent: no Request exists and the loop is at accept again
C18_Witness ==
    /\ mode = "SINGLE" /\ ppc = "accept"
    /\ lastAccept = "accept failed"
    /\ \E c \in Conns : Freed(c) /\ conn[c].by = <<"parent">> /\ conn[c].status = HTTP_STATUS_OK
    /\ \A c \in Conns : TheRequest \notin conn[c].live

-----------------------------------------------------------------------------
(* handler.c: the listing of handle_browse_request.  SpecBrowse applies it   *)
(* to a directory, given as the set of its entry names, and a request URI.   *)

\* the byte value of a character of an entry name
Byte(c) ==
    CASE c = "." -> 46 [] c = "a" -> 97 [] c = "b" -> 98 [] c = "h" -> 104

RECURSIVE strcmp(_, _)
\* strcmp(a, b), by which alphasort orders d_name in the C locale (the
\* program never calls setlocale): negative, zero or positive
strcmp(a, b) ==
    IF a = <<>> /\ b = <<>> THEN 0
    ELSE IF a = <<>> THEN -1
    ELSE IF b = <<>> THEN 1
    ELSE IF Head(a) # Head(b) THEN Byte(Head(a)) - Byte(Head(b))
    ELSE strcmp(Tail(a), Tail(b))

RECURSIVE scandir(_)
\* line 100: scandir(r->path, &entries, NULL, alphasort), the names of all
\* entries of the directory, sorted
scandir(names) ==
    IF names = {} THEN <<>>
    ELSE LET first == CHOOSE n \in names : \A m \in names : strcmp(n, m) <= 0
         IN  <<first>> \o scandir(names \ {first})

\* basename(path): what follows the last '/'
basename(path) ==
    LET slashes == {i \in 1..Len(path) : path[i] = "/"}
    IN  IF slashes = {} THEN path
        ELSE StrFrom(path, 1 + CHOOSE i \in slashes : \A j \in slashes : j <= i)

\* lines 114-118: the list item of one entry, as the target and the text of
\* its anchor
Anchor(uri, path, name) ==
    [href |-> IF ~streq(uri, <<"/">>)
              THEN <<"/">> \o basename(path) \o <<"/">> \o name
              ELSE <<"/">> \o name,
     text |-> name]

RECURSIVE Items(_, _, _)
\* lines 113-121: one list item per entry that is not "."
Items(uri, path, entries) ==
    IF entries = <<>> THEN <<>>
    ELSE (IF ~streq(Head(entries), <<".">>)
          THEN <<Anchor(uri, path, Head(entries))>> ELSE <<>>)
         \o Items(uri, path, Tail(entries))

\* a mutation of Listing: the entries whose name starts with '.' are hidden
Listing_hidden(uri, path, names) ==
    Items(uri, path, scandir({n \in names : n[1] # "."}))

\* lines 100-123: the anchors handle_browse_request writes for a directory
Listing(uri, path, names) == Items(uri, path, scandir(names))

\* the names a directory may hold besides "." and ".."
EntryNames == { <<".", "h">>, <<"a">>, <<"a", "b">>, <<"a", ".", "b">>, <<"b">> }

\* the directories served: the document root under URI "/", one below it,
\* and one two levels down
BrowseRequests ==
    { [uri |-> <<"/">>, path |-> RootPath],
      [uri |-> <<"/", "d">>, path |-> RootPath \o <<"/", "d">>],
      [uri |-> <<"/", "d", "/", "e">>, path |-> RootPath \o <<"/", "d", "/", "e">>] }

InitBrowse ==
    /\ pc = "start"
    /\ input \in { [uri |-> b.uri, path |-> b.path, names |-> { <<".">>, <<".", ".">> } \cup ns] :
                      b \in BrowseRequests, ns \in SUBSET EntryNames }
    /\ r = [NewRequest(<<>>) EXCEPT !.uri = input.uri, !.path = input.path]
    /\ ret = [status |-> HTTP_STATUS_OK, anchors |-> <<>>]
    /\ ServerIdle

\* handle_browse_request, scandir succeeding: the listing is written
DoBrowse ==
    /\ pc = "start"
    /\ ret' = [status |-> HTTP_STATUS_OK, anchors |-> Listing(r.uri, r.path, input.names)]
    /\ pc' = "done"
    /\ UNCHANGED <<input, r>>
    /\ UNCHANGED serverVars

\* handle_browse_request, scandir failing (lines 101-104): nothing is written
DoBrowseFails ==
    /\ pc = "start"
    /\ ret' = [status |-> HTTP_STATUS_NOT_FOUND, anchors |-> <<>>]
    /\ pc' = "failed"
    /\ UNCHANGED <<input, r>>
    /\ UNCHANGED serverVars

NextBrowse == DoBrowse \/ DoBrowseFails

SpecBrowse == InitBrowse /\ [][NextBrowse]_vars

\* a comes before b in lexicographic order
LexLess(a, b) ==
    \E k \in 1..(Len(a) + 1) :
        /\ k <= Len(b)
        /\ \A i \in 1..(k - 1) : a[i] = b[i]
        /\ (k = Len(a) + 1 \/ Byte(a[k]) < Byte(b[k]))

\* C19: the listing holds one anchor per entry of the directory except ".",
\* so ".." and the dotfiles are in it, in lexicographic order of entry name;
\* the target of an anchor is "/<entry>" when the request URI is "/" and
\* "/<base name of the resolved directory>/<entry>" for any other URI.
C19_ListingAnchors ==
    pc = "done"
        => LET a == ret.anchors
               last == CHOOSE i \in 1..Len(input.path) :
                          input.path[i] = "/" /\ \A j \in (i + 1)..Len(input.path) : input.path[j] # "/"
           IN  /\ Len(a) = Cardinality(input.names \ { <<".">> })
               /\ {a[i].text : i \in 1..Len(a)} = input.names \ { <<".">> }
               /\ \A i \in 1..Len(a) : \A j \in 1..Len(a) :
                     i < j => LexLess(a[i].text, a[j].text)
               /\ \A i \in 1..Len(a) :
                     a[i].href = IF input.uri = <<"/">>
                                 THEN <<"/">> \o a[i].text
                                 ELSE <<"/">> \o SubSeq(input.path, last + 1, Len(input.path))
                                          \o <<"/">> \o a[i].text

\* a directory two levels down with a dotfile and other entries was listed:
\* ".." comes first, and its target is under the base name only
C19_Witness ==
    /\ pc = "done"
    /\ input.uri = <<"/", "d", "/", "e">>
    /\ <<".", "h">> \in input.names /\ Cardinality(input.names) >= 5
    /\ ret.anchors[1] = [href |-> <<"/", "e", "/", ".", ".">>, text |-> <<".", ".">>]

-----------------------------------------------------------------------------
(* spidey.c: parse_options and what main does with its result.  SpecOptions  *)
(* runs the loop of parse_options on a command line, one action per          *)
(* iteration; r holds argind, the values set so far and the number of        *)
(* iterations made, ret what the process printed and its exit status.        *)

\* the longest command line, argv[0] apart
MaxArgs == 3

\* the iterations of the loop that are followed
MaxIterations == 6

Flag(c) == <<"-", c>>
Single == <<"S", "i", "n", "g", "l", "e">>
Forking == <<"F", "o", "r", "k", "i", "n", "g">>

\* the flags parse_options compares arg with
KnownFlags == {Flag("h"), Flag("c"), Flag("m"), Flag("M"), Flag("p"), Flag("r")}

\* the arguments command lines are made of: flags parse_options knows and one
\* it does not, the two modes, a value, and a lone '-'
Arguments ==
    {Flag("h"), Flag("c"), Flag("p"), Flag("x"), Single, Forking, <<"9">>, <<"-">>}

\* argv[i] (argv[0] is the program name), NULL at argc
Argv(argv, i) == IF i + 1 <= Len(argv) THEN argv[i + 1] ELSE NULL

\* the condition of the while loop (line 50)
MoreOptions(argv, argind) ==
    /\ argind < Len(argv)
    /\ Len(Argv(argv, argind)) > 1
    /\ Argv(argv, argind)[1] = "-"

InitOptions ==
    /\ pc = "options"
    /\ input \in { <<<<"s">>>> \o a : a \in UNION {[1..n -> Arguments] : n \in 0..MaxArgs} }
    /\ r = [argind |-> 1, mode |-> <<"unset">>, Port |-> Port, iterations |-> 0]
    /\ ret = [usage |-> FALSE, exit |-> 0]
    /\ ServerIdle

\* the loop ends (line 50): parse_options returns true and main goes on to
\* listen and serve
OptionsEnd ==
    /\ pc = "options"
    /\ ~MoreOptions(input, r.argind)
    /\ pc' = "server"
    /\ UNCHANGED <<input, r, ret>>
    /\ UNCHANGED serverVars

\* "-h" (lines 52-55): usage(argv[0], 0) prints and exits with status 0
OptionHelp ==
    /\ pc = "options"
    /\ MoreOptions(input, r.argind)
    /\ streq(Argv(input, r.argind), Flag("h"))
    /\ pc' = "exited"
    /\ ret' = [usage |-> TRUE, exit |-> 0]
    /\ r' = [r EXCEPT !.iterations = @ + 1]
    /\ UNCHANGED input
    /\ UNCHANGED serverVars

\* parse_options returns false: main calls usage(argv[0], 1) (lines 125-127)
Refused == [usage |-> TRUE, exit |-> 1]

\* "-c" (lines 56-69): the next argument must be Single or Forking
OptionMode ==
    /\ pc = "options"
    /\ MoreOptions(input, r.argind)
    /\ streq(Argv(input, r.argind), Flag("c"))
    /\ LET ptr == Argv(input, r.argind + 1)
       IN  IF ptr # NULL /\ (streq(ptr, Single) \/ streq(ptr, Forking))
           THEN /\ r' = [r EXCEPT !.mode = ptr, !.argind = @ + 2, !.iterations = @ + 1]
                /\ UNCHANGED <<pc, ret>>
           ELSE /\ r' = [r EXCEPT !.argind = @ + 1, !.iterations = @ + 1]
                /\ pc' = "exited"
                /\ ret' = Refused
    /\ UNCHANGED input
    /\ UNCHANGED serverVars

\* "-m", "-M", "-p", "-r" (lines 70-113), here "-p": the next argument must
\* be there and not start with '-'
OptionValue ==
    /\ pc = "options"
    /\ MoreOptions(input, r.argind)
    /\ streq(Argv(input, r.argind), Flag("p"))
    /\ LET ptr == Argv(input, r.argind + 1)
       IN  IF ptr # NULL /\ ptr[1] # "-"
           THEN /\ r' = [r EXCEPT !.Port = ptr, !.argind = @ + 2, !.iterations = @ + 1]
                /\ UNCHANGED <<pc, ret>>
           ELSE /\ r' = [r EXCEPT !.argind = @ + 1, !.iterations = @ + 1]
                /\ pc' = "exited"
                /\ ret' = Refused
    /\ UNCHANGED input
    /\ UNCHANGED serverVars

\* an argument that starts with '-' and is none of the six flags: no branch
\* of the if chain is taken, argind stays and the loop tests the same
\* argument again
OptionUnknown ==
    /\ pc = "options"
    /\ MoreOptions(input, r.argind)
    /\ Argv(input, r.argind) \notin KnownFlags
    /\ r.iterations < MaxIterations
    /\ r' = [r EXCEPT !.iterations = @ + 1]
    /\ UNCHANGED <<pc, input, ret>>
    /\ UNCHANGED serverVars

NextOptions == OptionsEnd \/ OptionHelp \/ OptionMode \/ OptionValue \/ OptionUnknown

SpecOptions == InitOptions /\ [][NextOptions]_vars

\* the first argument of the command line is an unknown flag: it starts with
\* '-', has a letter after it and is none of the six flags
StartsWithUnknownFlag(argv) ==
    /\ Len(argv) >= 2
    /\ Len(argv[2]) > 1 /\ argv[2][1] = "-"
    /\ argv[2] \notin KnownFlags

\* C20: for a command line with an unknown flag (taken in the plainest
\* position, as the first argument), option parsing terminates (the loop
\* consumes an argument per iteration, so it makes no more iterations than
\* there are arguments), no server is started, and the program prints the
\* usage and exits with a status other than 0.
C20_UnknownFlagRefused ==
    StartsWithUnknownFlag(input)
        => /\ r.iterations < Len(input)
           /\ pc # "server"
           /\ pc = "exited" => (ret.usage /\ ret.exit # 0)

-----------------------------------------------------------------------------
(* Properties of the dispatch, the response stream and the descriptors.      *)

\* C21: when the stat of the resolved path fails (the entry was removed after
\* the path was resolved), handle_request answers BadRequest and runs no
\* handler: the contents of the stat buffer of the failed call are not used.
C21_FailedStatIsBadRequest ==
    \A c \in Conns :
        (Done(c) /\ conn[c].parsed = 0 /\ conn[c].lstatFailed)
            => /\ conn[c].ran = <<>>
               /\ conn[c].errs = <<HTTP_STATUS_BAD_REQUEST>>
               /\ conn[c].out = <<ErrorResponse(HTTP_STATUS_BAD_REQUEST)>>

\* the status lines the server's own code wrote to the stream of connection c
\* (the output of a CGI script is not the server's)
StatusLines(c) == {i \in 1..Len(conn[c].out) : conn[c].out[i].line # -1}

\* C22: for every request the server's own code writes at most one status
\* line to the client stream: after a handler's "200 OK" no error response is
\* appended, also when the handler's final flush fails.
C22_OneStatusLine ==
    \A c \in Conns : Done(c) => Cardinality(StatusLines(c)) <= 1

\* C23: free_request closes only the connection of the Request it destroys:
\* once a Request has been freed, the standard descriptors (descriptor 0
\* among them) are as they were, and so is the listening socket (which only
\* the fork-failure branch of forking_server closes).
C23_FreeClosesOnlyOwn ==
    (\E c \in Conns : Freed(c))
        => /\ \A fd \in 0..(SFD - 1) : fds[fd] = Stdio
           /\ fds[SFD] = Listen \/ \E c \in Conns : conn[c].fork = "failed"

=============================================================================
